---- MODULE Spec2Model ----
(***************************************************************************)
(* Booking lifecycle of the corporate travel backend: the submit endpoint  *)
(* (bookings.py), the approval endpoints (approvals.py), the state machine *)
(* (booking_workflow.py), the policy engine (policy_engine.py) and the     *)
(* audit service, running as concurrent requests, each in a database       *)
(* session of its own (db/session.py: autoflush off, expire_on_commit off, *)
(* no row locks, no version column).                                       *)
(*                                                                         *)
(* A request is split where it reads or writes rows other requests can     *)
(* change: the SELECT of a booking or of an approval request, and each     *)
(* commit.  Code between two such points touches only the session's own    *)
(* objects and rows that no operation of the model changes (employees,     *)
(* organization), so it is folded into the step before it.  The refresh    *)
(* that follows a commit re-reads a row whose value no later code uses; it *)
(* is folded into the commit.                                              *)
(***************************************************************************)
EXTENDS Integers, Sequences, FiniteSets, TLC

\* ---------------------------------------------------------------- bounds
MaxCalls == 3
MaxSessions == 2
MaxStaff == 3
MaxAssignments == 2

\* ------------------------------------------------------------ the domain
Employees == {1, 2}
BookingIds == {1}
Sessions == 1 .. MaxSessions
NoManager == 0
None == "None"
Reasons == {"note a", "note b"}

DEFAULT_MAX_AMOUNT == 1000
DEFAULT_MIN_ADVANCE_DAYS == 7
DEFAULT_BUSINESS_CLASS_TITLES == {"CEO", "CTO", "CFO", "Director"}

VARIABLES
    manager_id,          \* Employee.manager_id of every employee (NoManager: NULL)
    permissions,         \* the effective permission set AccessControl holds for an actor
    organizations,       \* table organizations: id -> row (approval_mode; policy_settings is {})
    bookings,            \* table bookings: committed rows
    approval_requests,   \* table approval_requests: committed rows, id = position
    audit_logs,          \* table audit_logs: committed rows, in commit order
    sess,                \* one request (endpoint call) per session slot
    calls,               \* number of requests started so far
    walk,                \* the locals of a running _get_all_subordinates call
    role_assignments,    \* table employee_role_assignments, in query order
    groups,              \* Employee.groups: the directory group names of every employee
    delegations,         \* table delegations: the active rows without time bounds
    blacklist,           \* Redis: the jti of every token_blacklist key present
    answer               \* what the last access query returned

vars == <<manager_id, permissions, organizations, bookings, approval_requests,
          audit_logs, sess, calls, walk, role_assignments, groups, delegations,
          blacklist, answer>>

directory == <<role_assignments, groups, delegations>>

store == <<bookings, approval_requests, audit_logs>>

\* ------------------------------------------------------------ PolicyEngine

TitleContains_exact(title, allowed) == title = <<allowed>>

\* `allowed in title`: substring test; a title is a sequence of words and
\* every allowed title is one word
TitleContains(title, allowed) ==
    \E i \in 1 .. Len(title) : title[i] = allowed

RECURSIVE ClassViolations(_, _)
ClassViolations(travelers, allowed_business_titles) ==
    IF travelers = <<>> THEN <<>>
    ELSE LET title == Head(travelers)
             is_eligible == \E allowed \in allowed_business_titles :
                                TitleContains(title, allowed)
             rest == ClassViolations(Tail(travelers), allowed_business_titles)
         IN  IF ~is_eligible
             THEN <<[policy |-> "Travel Class Violation", severity |-> "soft"]>> \o rest
             ELSE rest

ApprovalRequired_byviolations(mode, violations) == Len(violations) > 0

\* The approval logic: approval_required as the mode and the violations
\* found decide it
ApprovalRequired(mode, violations) ==
    IF mode = "always_ask" THEN TRUE
    ELSE IF mode = "only_when_necessary" THEN Len(violations) > 0
    ELSE FALSE

Evaluate_lenient(booking) ==
    IF booking.org_id \notin DOMAIN organizations
    THEN [result |-> "pass", approval_required |-> TRUE, violations |-> <<>>]
    ELSE
    LET org == organizations[booking.org_id]
        mode == IF org.approval_mode = None THEN "only_when_necessary"
                ELSE org.approval_mode
        max_amount == DEFAULT_MAX_AMOUNT
        min_days == DEFAULT_MIN_ADVANCE_DAYS
        cost == IF booking.total_amount # 0 /\ booking.total_amount > max_amount
                THEN <<[policy |-> "Max Cost Exceeded", severity |-> "hard"]>>
                ELSE <<>>
        advance == IF booking.start_date # <<>> /\ booking.start_date[1] < min_days
                   THEN <<[policy |-> "Advance Booking Violation", severity |-> "soft"]>>
                   ELSE <<>>
        class == IF booking.travel_class \in {"business", "first"}
                 THEN ClassViolations(booking.travelers, DEFAULT_BUSINESS_CLASS_TITLES)
                 ELSE <<>>
        violations == cost \o advance \o class
        hard_block == FALSE
        approval_required == ApprovalRequired(mode, violations)
        final_status == IF violations # <<>> THEN "warn" ELSE "pass"
    IN  IF hard_block
        THEN [result |-> "block", approval_required |-> FALSE, violations |-> violations]
        ELSE [result |-> final_status, approval_required |-> approval_required,
              violations |-> violations]

Evaluate(booking) ==
    IF booking.org_id \notin DOMAIN organizations
    THEN [result |-> "pass", approval_required |-> TRUE, violations |-> <<>>]
    ELSE
    LET org == organizations[booking.org_id]
        mode == IF org.approval_mode = None THEN "always_ask" ELSE org.approval_mode
        max_amount == DEFAULT_MAX_AMOUNT
        min_days == DEFAULT_MIN_ADVANCE_DAYS
        cost == IF booking.total_amount # 0 /\ booking.total_amount > max_amount
                THEN <<[policy |-> "Max Cost Exceeded", severity |-> "hard"]>>
                ELSE <<>>
        advance == IF booking.start_date # <<>> /\ booking.start_date[1] < min_days
                   THEN <<[policy |-> "Advance Booking Violation", severity |-> "soft"]>>
                   ELSE <<>>
        class == IF booking.travel_class \in {"business", "first"}
                 THEN ClassViolations(booking.travelers, DEFAULT_BUSINESS_CLASS_TITLES)
                 ELSE <<>>
        violations == cost \o advance \o class
        hard_block == FALSE
        approval_required == ApprovalRequired(mode, violations)
        final_status == IF violations # <<>> THEN "warn" ELSE "pass"
    IN  IF hard_block
        THEN [result |-> "block", approval_required |-> FALSE, violations |-> violations]
        ELSE [result |-> final_status, approval_required |-> approval_required,
              violations |-> violations]

\* ------------------------------------------------------------ AuditService

AuditLog_swapped(entity_id, actor_id, action, from_state, to_state) ==
    [entity_type |-> "booking", entity_id |-> entity_id, actor_id |-> actor_id,
     action |-> action, from_state |-> to_state, to_state |-> from_state]

AuditLog(entity_id, actor_id, action, from_state, to_state) ==
    [entity_type |-> "booking", entity_id |-> entity_id, actor_id |-> actor_id,
     action |-> action, from_state |-> from_state, to_state |-> to_state]

\* ------------------------------------------------------------ AccessControl

can(actor, permission) == permission \in permissions[actor]

\* ------------------------------------------------------ BookingStateMachine

IsDraft_skipped(booking) == TRUE

IsDraft(booking) == booking.status = "draft"

IsBlock(p_status) == p_status = "block"

BlockedStatus == "rejected"

HasManager_skipped(booker) == TRUE

HasManager(booker) == manager_id[booker] # NoManager

NewApprovalRequests_twice(booking_id, booker) ==
    LET req == [booking_id |-> booking_id, approver_id |-> manager_id[booker],
                status |-> "pending", reason |-> None]
    IN  <<req, req>>

NewApprovalRequests(booking_id, booker) ==
    <<[booking_id |-> booking_id, approver_id |-> manager_id[booker],
       status |-> "pending", reason |-> None]>>

\* submit_draft up to (not including) its commit: the error it raises, or
\* None, the booking object as the code leaves it, and the objects it has
\* added to the session
submit_draft(booking_id, booking, policy_result) ==
    IF ~IsDraft(booking)
    THEN [error |-> "400 Only draft bookings can be submitted", booking |-> booking,
          added_reqs |-> <<>>, added_audit |-> <<>>]
    ELSE
    LET p_status == policy_result.result
        approval_req == policy_result.approval_required
        b1 == [booking EXCEPT !.policy_status = p_status,
                              !.approval_required = approval_req]
    IN  IF IsBlock(p_status)
        THEN [error |-> "400 Booking blocked by policy",
              booking |-> [b1 EXCEPT !.status = BlockedStatus],
              added_reqs |-> <<>>, added_audit |-> <<>>]
        ELSE
        LET b2 == [b1 EXCEPT !.status = "policy_evaluated"]
        IN  IF approval_req
            THEN IF ~HasManager(booking.booker_id)
                 THEN [error |-> "400 Approval required but no manager", booking |-> b2,
                       added_reqs |-> <<>>, added_audit |-> <<>>]
                 ELSE [error |-> None,
                       booking |-> [b2 EXCEPT !.status = "pending_approval"],
                       added_reqs |-> NewApprovalRequests(booking_id, booking.booker_id),
                       added_audit |-> <<AuditLog(booking_id, booking.booker_id, "SUBMIT",
                                                  "draft", "pending_approval")>>]
            ELSE [error |-> None,
                  booking |-> [b2 EXCEPT !.status = "approved"],
                  added_reqs |-> <<>>,
                  added_audit |-> <<AuditLog(booking_id, booking.booker_id,
                                             "SUBMIT_AUTO_APPROVE", "draft", "approved")>>]

IsPendingApproval(booking) == booking.status = "pending_approval"

approve_booking_clears(booking_id, booking, approver) ==
    IF ~IsPendingApproval(booking)
    THEN [error |-> "400 Booking is not pending approval", booking |-> booking,
          added_audit |-> <<>>]
    ELSE [error |-> None,
          booking |-> [booking EXCEPT !.status = "approved",
                                      !.approval_required = FALSE],
          added_audit |-> <<AuditLog(booking_id, approver, "APPROVE",
                                     booking.status, "approved")>>]

\* approve_booking up to its commit
approve_booking(booking_id, booking, approver) ==
    IF ~IsPendingApproval(booking)
    THEN [error |-> "400 Booking is not pending approval", booking |-> booking,
          added_audit |-> <<>>]
    ELSE [error |-> None,
          booking |-> [booking EXCEPT !.status = "approved"],
          added_audit |-> <<AuditLog(booking_id, approver, "APPROVE",
                                     booking.status, "approved")>>]

\* reject_booking up to its commit
reject_booking(booking_id, booking, approver) ==
    IF ~IsPendingApproval(booking)
    THEN [error |-> "400 Booking is not pending approval", booking |-> booking,
          added_audit |-> <<>>]
    ELSE [error |-> None,
          booking |-> [booking EXCEPT !.status = "rejected"],
          added_audit |-> <<AuditLog(booking_id, approver, "REJECT",
                                     booking.status, "rejected")>>]

\* ------------------------------------------- AccessControl: hierarchy walk

\* The elements of a set of ids as a list in ascending order
RECURSIVE SortedSeq(_)
SortedSeq(ids) ==
    IF ids = {} THEN <<>>
    ELSE LET m == CHOOSE x \in ids : \A y \in ids : x <= y
         IN  <<m>> \o SortedSeq(ids \ {m})

\* Employee.subordinates: the employees whose manager_id is e
Subordinates(e) == SortedSeq({ s \in DOMAIN manager_id : manager_id[s] = e })

NoWalk == [pc |-> "idle", actor |-> 0, queue |-> <<>>, visited |-> {},
           subordinates |-> <<>>]

WalkStart_unseeded(actor) ==
    [pc |-> "run", actor |-> actor, queue |-> Subordinates(actor),
     visited |-> {}, subordinates |-> <<>>]

\* _get_all_subordinates up to its loop: the queue holds the direct reports,
\* the actor counts as visited
WalkStart(actor) ==
    [pc |-> "run", actor |-> actor, queue |-> Subordinates(actor),
     visited |-> {actor}, subordinates |-> <<>>]

WalkIteration_nopop(w) ==
    LET current == Head(w.queue)
    IN  IF current \in w.visited THEN w
        ELSE [w EXCEPT !.queue = Tail(w.queue) \o Subordinates(current),
                       !.visited = @ \cup {current},
                       !.subordinates = Append(@, current)]

\* One iteration of the while loop: pop the head of the queue, skip it when
\* visited, else record it and queue its direct reports
WalkIteration(w) ==
    LET current == Head(w.queue)
    IN  IF current \in w.visited THEN [w EXCEPT !.queue = Tail(w.queue)]
        ELSE [w EXCEPT !.queue = Tail(w.queue) \o Subordinates(current),
                       !.visited = @ \cup {current},
                       !.subordinates = Append(@, current)]

\* The loop run to its end: the list the call returns
RECURSIVE WalkLoop(_)
WalkLoop(w) == IF w.queue = <<>> THEN w.subordinates ELSE WalkLoop(WalkIteration(w))

get_all_subordinates(actor) == WalkLoop(WalkStart(actor))

\* The call as steps
GetAllSubordinates(actor) ==
    /\ walk.pc = "idle"
    /\ walk' = WalkStart(actor)
    /\ UNCHANGED <<manager_id, permissions, organizations, store, sess, calls,
                   directory, blacklist, answer>>

WalkStep ==
    /\ walk.pc = "run"
    /\ walk.queue # <<>>
    /\ walk' = WalkIteration(walk)
    /\ UNCHANGED <<manager_id, permissions, organizations, store, sess, calls,
                   directory, blacklist, answer>>

WalkReturn ==
    /\ walk.pc = "run"
    /\ walk.queue = <<>>
    /\ walk' = [walk EXCEPT !.pc = "done"]
    /\ UNCHANGED <<manager_id, permissions, organizations, store, sess, calls,
                   directory, blacklist, answer>>

\* ------------------------------------------------- permissions.py (groups)

GROUP_PERMISSION_MAP ==
    [travel_admin |-> {"book_anyone", "view_all_bookings", "manage_policies",
                       "view_analytics", "manage_users"},
     executive_assistant |-> {"book_for_others", "view_team_bookings", "book_self",
                              "view_self_bookings"},
     employee |-> {"book_self", "view_self_bookings"},
     manager |-> {"book_self", "view_self_bookings", "view_team_bookings",
                  "view_analytics"}]

\* The directory group names in use; Sales has no entry in the map
GroupNames == {"travel_admin", "Manager", "Sales"}

\* str.lower() on the group names in use
Lower(group) ==
    CASE group = "Manager" -> "manager"
      [] group = "Sales" -> "sales"
      [] OTHER -> group

get_permissions_for_groups(group_names) ==
    UNION { IF Lower(group) \in DOMAIN GROUP_PERMISSION_MAP
            THEN GROUP_PERMISSION_MAP[Lower(group)] ELSE {} : group \in group_names }
    \cup GROUP_PERMISSION_MAP["employee"]

\* --------------------------------------- AccessControl: acting for others

\* The delegation types that satisfy an action type
AllowedDelegationTypes(action_type) ==
    CASE action_type = "booking" -> {"booking", "full"}
      [] action_type = "approval" -> {"approval", "full"}
      [] action_type = "view" -> {"view", "booking", "approval", "full"}
      [] OTHER -> {"full"}

get_delegated_employee_ids(actor, action_type) ==
    { d.delegator_id : d \in { x \in delegations :
                                  /\ x.delegate_id = actor
                                  /\ x.delegation_type \in
                                         AllowedDelegationTypes(action_type) } }

is_subordinate(actor, target_id) ==
    \/ \E i \in DOMAIN Subordinates(actor) : Subordinates(actor)[i] = target_id
    \/ \E i \in DOMAIN get_all_subordinates(actor) :
           get_all_subordinates(actor)[i] = target_id

can_act_for(actor, target_employee_id, action_type) ==
    IF actor = target_employee_id
    THEN can(actor, "book_self") \/ can(actor, "view_self_bookings")
    ELSE IF can(actor, "book_anyone") THEN TRUE
    ELSE IF target_employee_id \in get_delegated_employee_ids(actor, action_type)
    THEN TRUE
    ELSE IF /\ can(actor, "book_for_others") \/ can(actor, "view_team_bookings")
            /\ is_subordinate(actor, target_employee_id)
    THEN TRUE
    ELSE FALSE

\* ------------------------------------------------ roles.py (role templates)

\* Table role_templates: the permissions of every template, as stored
RoleTemplates ==
    [Employee |-> [book_flights |-> TRUE, view_own_bookings |-> TRUE,
                   business_class |-> FALSE],
     Manager |-> [book_flights |-> TRUE, approve_travel |-> TRUE,
                  view_team_bookings |-> TRUE],
     Restricted |-> [book_flights |-> FALSE, approve_travel |-> FALSE,
                     view_own_bookings |-> TRUE]]

\* Employee.department
Department == [e \in Employees |-> IF e = 1 THEN "Engineering" ELSE "Sales"]

GrantPermissions_overwrite(effective_permissions, template_permissions) ==
    (effective_permissions \
        { perm \in DOMAIN template_permissions : ~template_permissions[perm] })
    \cup { perm \in DOMAIN template_permissions : template_permissions[perm] }

\* Merge permissions: every permission the template enables becomes a key
\* of effective_permissions (the value is always True)
GrantPermissions(effective_permissions, template_permissions) ==
    effective_permissions \cup
        { perm \in DOMAIN template_permissions : template_permissions[perm] }

HasAllAccess_last(has_all_access, access_scope) == access_scope = "all"

HasAllAccess(has_all_access, access_scope) ==
    IF access_scope = "all" THEN TRUE ELSE has_all_access

\* Calculate accessible employees: what one assignment adds to the id set
AccessibleIds(all_accessible_ids, assignment, employee_id) ==
    CASE assignment.access_scope = "all" -> all_accessible_ids
      [] assignment.access_scope = "self" -> all_accessible_ids \cup {employee_id}
      [] assignment.access_scope = "individuals" ->
             all_accessible_ids \cup {employee_id}
                 \cup assignment.accessible_employee_ids
      [] assignment.access_scope = "group" ->
             all_accessible_ids \cup {employee_id}
                 \cup { e \in Employees : Department[e] \in assignment.accessible_groups }
      [] assignment.access_scope = "hierarchy" -> all_accessible_ids \cup {employee_id}

\* The loop over the assignments, from what the earlier ones have merged
RECURSIVE MergeAssignments(_, _, _)
MergeAssignments(assignments, merged, employee_id) ==
    IF assignments = <<>> THEN merged
    ELSE LET assignment == Head(assignments)
             template == RoleTemplates[assignment.role_template]
         IN  MergeAssignments(Tail(assignments),
                 [effective_permissions |->
                      GrantPermissions(merged.effective_permissions, template),
                  all_accessible_ids |->
                      AccessibleIds(merged.all_accessible_ids, assignment, employee_id),
                  has_all_access |->
                      HasAllAccess(merged.has_all_access, assignment.access_scope)],
                 employee_id)

\* The query of get_employee_roles: the active assignments of the employee
ActiveAssignments(employee_id) ==
    SelectSeq(role_assignments,
              LAMBDA a : a.employee_id = employee_id /\ a.is_active)

\* The effective permissions and the accessible ids get_employee_roles
\* calculates
EffectiveAccess(employee_id) ==
    MergeAssignments(ActiveAssignments(employee_id),
                     [effective_permissions |-> {}, all_accessible_ids |-> {},
                      has_all_access |-> FALSE],
                     employee_id)

\* ------------------------------------------------------------- the sessions

NoBooking == [org_id |-> 0, booker_id |-> 0, status |-> None, policy_status |-> None,
              approval_required |-> FALSE, total_amount |-> 0, start_date |-> <<>>,
              travel_class |-> None, travelers |-> <<>>]

NoRequest == [booking_id |-> 0, approver_id |-> 0, status |-> None, reason |-> None]

NoVerdict == [result |-> None, approval_required |-> FALSE, violations |-> <<>>]

\* A session outside a request: get_db has closed it, and whatever it had not
\* committed is gone
Idle == [pc |-> "idle", op |-> None, user |-> 0, reason |-> None,
         policy_result |-> NoVerdict,
         booking_id |-> 0, loaded_booking |-> NoBooking, booking |-> NoBooking,
         approval_id |-> 0, loaded_req |-> NoRequest, req |-> NoRequest,
         added_reqs |-> <<>>, added_audit |-> <<>>,
         transition |-> None, notification |-> None, created |-> 0, result |-> None]

Free(p) == sess[p].pc \in {"idle", "done"}

\* A new request takes a session of its own: the lowest free slot (the slots
\* are interchangeable)
CanStart(p) ==
    /\ calls < MaxCalls
    /\ Free(p)
    /\ \A q \in Sessions : q < p => ~Free(q)

\* The request of session p ends: the response (or the error) goes to the
\* caller, the session closes, and what it had not committed is rolled back.
\* The record keeps what the request was, how it ended and the booking object
\* as the request left it.
Finish(s, result) ==
    [s EXCEPT !.pc = "done", !.result = result, !.reason = None,
              !.loaded_booking = NoBooking, !.loaded_req = NoRequest,
              !.req = NoRequest, !.added_reqs = <<>>, !.added_audit = <<>>]

\* The UPDATE the unit of work emits for a loaded row: only the columns whose
\* value differs from the one loaded (or last committed) are written
FlushBooking(row, loaded, cur) ==
    [row EXCEPT !.status = IF cur.status # loaded.status THEN cur.status ELSE @,
                !.policy_status = IF cur.policy_status # loaded.policy_status
                                  THEN cur.policy_status ELSE @,
                !.approval_required = IF cur.approval_required # loaded.approval_required
                                      THEN cur.approval_required ELSE @]

FlushRequest(row, loaded, cur) ==
    [row EXCEPT !.status = IF cur.status # loaded.status THEN cur.status ELSE @,
                !.reason = IF cur.reason # loaded.reason THEN cur.reason ELSE @]

\* db.commit() of session record s: flush the dirty rows and the added
\* objects, commit them as one transaction
CommitBookings(s) ==
    IF s.booking_id = 0 THEN bookings
    ELSE [bookings EXCEPT ![s.booking_id] = FlushBooking(@, s.loaded_booking, s.booking)]

CommitRequests_noadd(s) ==
    IF s.approval_id = 0 THEN approval_requests
    ELSE [approval_requests EXCEPT ![s.approval_id] =
              FlushRequest(@, s.loaded_req, s.req)]

CommitRequests(s) ==
    (IF s.approval_id = 0 THEN approval_requests
     ELSE [approval_requests EXCEPT ![s.approval_id] =
               FlushRequest(@, s.loaded_req, s.req)])
    \o s.added_reqs

CommitAudit_dropped(s) == audit_logs

CommitAudit(s) == audit_logs \o s.added_audit

Commit(s) ==
    /\ bookings' = CommitBookings(s)
    /\ approval_requests' = CommitRequests(s)
    /\ audit_logs' = CommitAudit(s)

Static ==
    UNCHANGED <<manager_id, permissions, organizations, walk, directory, blacklist, answer>>

\* ---------------------------------------------- POST /bookings/{id}/submit

SubmitDraftCall_commits(p, s0, policy_result) ==
    LET r == submit_draft(s0.booking_id, s0.booking, policy_result)
        s1 == [s0 EXCEPT !.policy_result = policy_result,
                         !.transition = "submit_draft",
                         !.booking = r.booking,
                         !.added_reqs = r.added_reqs,
                         !.added_audit = r.added_audit]
    IN  sess' = [sess EXCEPT ![p] = [s1 EXCEPT !.pc = "submit_commit"]]

\* submit_draft called on the booking row the caller has loaded, up to the
\* commit; an HTTPException ends the request
SubmitDraftCall(p, s0, policy_result) ==
    LET r == submit_draft(s0.booking_id, s0.booking, policy_result)
        s1 == [s0 EXCEPT !.policy_result = policy_result,
                         !.transition = "submit_draft",
                         !.booking = r.booking,
                         !.added_reqs = r.added_reqs,
                         !.added_audit = r.added_audit]
    IN  IF r.error # None
        THEN sess' = [sess EXCEPT ![p] = Finish(s1, r.error)]
        ELSE sess' = [sess EXCEPT ![p] = [s1 EXCEPT !.pc = "submit_commit"]]

NotBooker(booking, user) == booking.booker_id # user

\* submit_booking: fetch the booking, check the booker, run the policy
\* rules, call submit_draft
SubmitBooking(p, user, b) ==
    /\ CanStart(p)
    /\ LET row == bookings[b]
           s0 == [Idle EXCEPT !.op = "submit_booking", !.user = user,
                              !.booking_id = b, !.loaded_booking = row,
                              !.booking = row]
       IN  IF NotBooker(row, user)
           THEN sess' = [sess EXCEPT ![p] =
                            Finish(s0, "403 Not authorized to submit this booking")]
           ELSE SubmitDraftCall(p, s0, Evaluate(row))
    /\ calls' = calls + 1
    /\ UNCHANGED store
    /\ Static

\* The verdict of PolicyEngine.evaluate's hard-block return, the one verdict
\* submit_booking never passes on (hard_block is never set)
Verdicts ==
    { [result |-> "block", approval_required |-> FALSE, violations |-> <<>>] }

\* BookingStateMachine.submit_draft called with a verdict of the caller's
\* (the lifecycle's exposed surface), on a booking loaded in a session of
\* its own
SubmitDraft(p, b, policy_result) ==
    /\ CanStart(p)
    /\ LET row == bookings[b]
           s0 == [Idle EXCEPT !.op = "submit_draft", !.user = row.booker_id,
                              !.booking_id = b, !.loaded_booking = row,
                              !.booking = row]
       IN  SubmitDraftCall(p, s0, policy_result)
    /\ calls' = calls + 1
    /\ UNCHANGED store
    /\ Static

\* submit_draft: db.commit(), db.refresh(booking), return
SubmitCommit(p) ==
    /\ sess[p].pc = "submit_commit"
    /\ Commit(sess[p])
    /\ sess' = [sess EXCEPT ![p] =
                   Finish([sess[p] EXCEPT
                              !.created = Len(sess[p].added_reqs),
                              !.booking = bookings'[sess[p].booking_id]], "ok")]
    /\ UNCHANGED calls
    /\ Static

\* ------------------------------------------ POST /approvals/{id}/approve

NotApprover_skipped(req, user) == FALSE

NotApprover(req, user) == req.approver_id # user

NotPending(req) == req.status # "pending"

SelfApproval_skipped(booking, user) == FALSE

SelfApproval(booking, user) == booking.booker_id = user

\* The checks approve_request and reject_request make on the caller and on
\* the request they fetched; None when they pass
RequestDenied(req, user, verb) ==
    IF ~can(user, "approve_travel") THEN "403 no permission to " \o verb
    ELSE IF NotApprover(req, user) THEN "403 Not authorized to " \o verb
    ELSE IF NotPending(req) THEN "400 Request is not pending"
    ELSE None

\* approve_request: permission check, fetch the request, verify approver
\* and status
ApproveRequest(p, user, approval_id, reason) ==
    /\ CanStart(p)
    /\ approval_id \in DOMAIN approval_requests
    /\ LET req == approval_requests[approval_id]
           s0 == [Idle EXCEPT !.op = "approve_request", !.user = user,
                              !.reason = reason, !.approval_id = approval_id,
                              !.loaded_req = req, !.req = req]
           denied == RequestDenied(req, user, "approve")
       IN  IF denied # None
           THEN sess' = [sess EXCEPT ![p] = Finish(s0, denied)]
           ELSE sess' = [sess EXCEPT ![p] = [s0 EXCEPT !.pc = "approve_fetch_booking"]]
    /\ calls' = calls + 1
    /\ UNCHANGED store
    /\ Static

\* approve_request: fetch the booking, self-approval rule, approve_booking
\* up to its commit
ApproveFetchBooking(p) ==
    /\ sess[p].pc = "approve_fetch_booking"
    /\ LET s == sess[p]
           b == s.req.booking_id
           row == bookings[b]
           s0 == [s EXCEPT !.booking_id = b, !.loaded_booking = row, !.booking = row]
       IN  IF SelfApproval(row, s.user)
           THEN sess' = [sess EXCEPT ![p] =
                            Finish(s0, "400 Cannot approve your own booking")]
           ELSE LET r == approve_booking(b, row, s.user)
                    s1 == [s0 EXCEPT !.transition = "approve_booking",
                                     !.booking = r.booking,
                                     !.added_audit = r.added_audit]
                IN  IF r.error # None
                    THEN sess' = [sess EXCEPT ![p] = Finish(s1, r.error)]
                    ELSE sess' = [sess EXCEPT ![p] =
                                     [s1 EXCEPT !.pc = "approve_booking_commit"]]
    /\ UNCHANGED <<calls, store>>
    /\ Static

\* approve_booking: db.commit(), db.refresh(booking), return; then
\* approve_request sets the status and the reason of the request
ApproveBookingCommit(p) ==
    /\ sess[p].pc = "approve_booking_commit"
    /\ Commit(sess[p])
    /\ sess' = [sess EXCEPT ![p] =
                   [sess[p] EXCEPT
                       !.pc = "approve_commit",
                       !.loaded_booking = bookings'[sess[p].booking_id],
                       !.booking = bookings'[sess[p].booking_id],
                       !.added_audit = <<>>,
                       !.req = [sess[p].req EXCEPT !.status = "approved",
                                                   !.reason = sess[p].reason]]]
    /\ UNCHANGED calls
    /\ Static

\* approve_request: db.commit(), db.refresh(req), return req
ApproveCommit(p) ==
    /\ sess[p].pc = "approve_commit"
    /\ Commit(sess[p])
    /\ sess' = [sess EXCEPT ![p] =
                   Finish(sess[p], "ok")]
    /\ UNCHANGED calls
    /\ Static

\* ------------------------------------------- POST /approvals/{id}/reject

\* reject_request: permission check, fetch the request, verify approver and
\* status, set the status and the reason of the request
RejectRequest(p, user, approval_id, reason) ==
    /\ CanStart(p)
    /\ approval_id \in DOMAIN approval_requests
    /\ LET req == approval_requests[approval_id]
           s0 == [Idle EXCEPT !.op = "reject_request", !.user = user,
                              !.reason = reason, !.approval_id = approval_id,
                              !.loaded_req = req, !.req = req]
           denied == RequestDenied(req, user, "reject")
       IN  IF denied # None
           THEN sess' = [sess EXCEPT ![p] = Finish(s0, denied)]
           ELSE sess' = [sess EXCEPT ![p] =
                            [s0 EXCEPT !.pc = "reject_fetch_booking",
                                       !.req = [req EXCEPT !.status = "rejected",
                                                           !.reason = reason]]]
    /\ calls' = calls + 1
    /\ UNCHANGED store
    /\ Static

\* reject_request: fetch the booking, reject_booking up to its commit
RejectFetchBooking(p) ==
    /\ sess[p].pc = "reject_fetch_booking"
    /\ LET s == sess[p]
           b == s.req.booking_id
           row == bookings[b]
           r == reject_booking(b, row, s.user)
           s1 == [s EXCEPT !.booking_id = b, !.loaded_booking = row,
                           !.transition = "reject_booking",
                           !.booking = r.booking,
                           !.added_audit = r.added_audit]
       IN  IF r.error # None
           THEN sess' = [sess EXCEPT ![p] = Finish(s1, r.error)]
           ELSE sess' = [sess EXCEPT ![p] = [s1 EXCEPT !.pc = "reject_commit"]]
    /\ UNCHANGED <<calls, store>>
    /\ Static

\* reject_booking: db.commit() (request, booking and audit entry in one
\* transaction), db.refresh(booking); reject_request: db.commit() with
\* nothing left to write, db.refresh(req), return req
RejectCommit(p) ==
    /\ sess[p].pc = "reject_commit"
    /\ Commit(sess[p])
    /\ sess' = [sess EXCEPT ![p] =
                   Finish([sess[p] EXCEPT
                              !.booking = bookings'[sess[p].booking_id]], "ok")]
    /\ UNCHANGED calls
    /\ Static

\* ------------------------------------------- NotificationService.send_email

\* What the caller gets when send_email raises: nothing in the state machine
\* or in the endpoints catches the exception
NotificationError == "500 Internal Server Error"

\* The awaited send_email raises: the exception leaves the transition before
\* its db.commit() and ends the request
Undelivered(s) == Finish([s EXCEPT !.notification = "failed"], NotificationError)

\* submit_booking, with submit_draft reaching its send_email (to the manager
\* when approval is required, to the booker otherwise), which raises
SubmitBookingUndelivered(p, user, b) ==
    /\ CanStart(p)
    /\ LET row == bookings[b]
           policy_result == Evaluate(row)
           r == submit_draft(b, row, policy_result)
           s1 == [Idle EXCEPT !.op = "submit_booking", !.user = user,
                              !.booking_id = b, !.loaded_booking = row,
                              !.policy_result = policy_result,
                              !.transition = "submit_draft",
                              !.booking = r.booking,
                              !.added_reqs = r.added_reqs,
                              !.added_audit = r.added_audit]
       IN  /\ ~NotBooker(row, user)
           /\ r.error = None
           /\ sess' = [sess EXCEPT ![p] = Undelivered(s1)]
    /\ calls' = calls + 1
    /\ UNCHANGED store
    /\ Static

\* approve_request: fetch the booking, self-approval rule, approve_booking
\* up to its send_email to the booker, which raises
ApproveFetchBookingUndelivered(p) ==
    /\ sess[p].pc = "approve_fetch_booking"
    /\ LET s == sess[p]
           b == s.req.booking_id
           row == bookings[b]
           r == approve_booking(b, row, s.user)
           s1 == [s EXCEPT !.booking_id = b, !.loaded_booking = row,
                           !.transition = "approve_booking",
                           !.booking = r.booking,
                           !.added_audit = r.added_audit]
       IN  /\ ~SelfApproval(row, s.user)
           /\ r.error = None
           /\ sess' = [sess EXCEPT ![p] = Undelivered(s1)]
    /\ UNCHANGED <<calls, store>>
    /\ Static

\* reject_request: fetch the booking, reject_booking up to its send_email to
\* the booker, which raises
RejectFetchBookingUndelivered(p) ==
    /\ sess[p].pc = "reject_fetch_booking"
    /\ LET s == sess[p]
           b == s.req.booking_id
           row == bookings[b]
           r == reject_booking(b, row, s.user)
           s1 == [s EXCEPT !.booking_id = b, !.loaded_booking = row,
                           !.transition = "reject_booking",
                           !.booking = r.booking,
                           !.added_audit = r.added_audit]
       IN  /\ r.error = None
           /\ sess' = [sess EXCEPT ![p] = Undelivered(s1)]
    /\ UNCHANGED <<calls, store>>
    /\ Static

\* ------------------------------------------------------------ specification

\* The draft bookings create_booking_draft has stored
BookingInputs ==
    { [total_amount |-> 500, start_date |-> <<30>>, travel_class |-> "economy",
       travelers |-> << <<"Engineer">> >>],
      [total_amount |-> 1500, start_date |-> <<10>>, travel_class |-> "economy",
       travelers |-> << <<"Engineer">> >>] }

Draft(booker, in) ==
    [org_id |-> 1, booker_id |-> booker, status |-> "draft", policy_status |-> None,
     approval_required |-> FALSE, total_amount |-> in.total_amount,
     start_date |-> in.start_date, travel_class |-> in.travel_class,
     travelers |-> in.travelers]

ApprovalModes == {"always_ask", "only_when_necessary", None}

NoToken == [signed |-> FALSE, sub |-> 0, type |-> None, jti |-> None]

NoAnswer == [op |-> None, employee_id |-> 0, target |-> 0, assignments |-> <<>>,
             effective_permissions |-> {}, global_access |-> FALSE,
             accessible_employee_ids |-> {}, allowed |-> FALSE,
             token |-> NoToken, error |-> None]

\* No role assignment, group or delegation is stored and no access query runs
NoAccessQueries ==
    /\ walk = NoWalk
    /\ role_assignments = <<>>
    /\ groups = [e \in Employees |-> {}]
    /\ delegations = {}
    /\ blacklist = {}
    /\ answer = NoAnswer

Init ==
    /\ manager_id \in [Employees -> Employees \cup {NoManager}]
    /\ permissions \in [Employees -> SUBSET {"approve_travel"}]
    /\ organizations \in
          {<<>>} \cup { <<[approval_mode |-> m]>> : m \in ApprovalModes }
    /\ bookings \in [BookingIds -> { Draft(1, in) : in \in BookingInputs }]
    /\ approval_requests = <<>>
    /\ audit_logs = <<>>
    /\ sess = [p \in Sessions |-> Idle]
    /\ calls = 0
    /\ NoAccessQueries

Next ==
    \/ \E p \in Sessions, user \in Employees, b \in BookingIds : SubmitBooking(p, user, b)
    \/ \E p \in Sessions, b \in BookingIds, v \in Verdicts : SubmitDraft(p, b, v)
    \/ \E p \in Sessions : SubmitCommit(p)
    \/ \E p \in Sessions, user \in Employees, a \in DOMAIN approval_requests,
          reason \in Reasons : ApproveRequest(p, user, a, reason)
    \/ \E p \in Sessions : ApproveFetchBooking(p)
    \/ \E p \in Sessions : ApproveBookingCommit(p)
    \/ \E p \in Sessions : ApproveCommit(p)
    \/ \E p \in Sessions, user \in Employees, a \in DOMAIN approval_requests,
          reason \in Reasons : RejectRequest(p, user, a, reason)
    \/ \E p \in Sessions : RejectFetchBooking(p)
    \/ \E p \in Sessions : RejectCommit(p)

Spec == Init /\ [][Next]_vars

\* The same requests with a notification service whose send_email can raise
NextNotify ==
    \/ Next
    \/ \E p \in Sessions, user \in Employees, b \in BookingIds :
           SubmitBookingUndelivered(p, user, b)
    \/ \E p \in Sessions : ApproveFetchBookingUndelivered(p)
    \/ \E p \in Sessions : RejectFetchBookingUndelivered(p)

SpecNotify == Init /\ [][NextNotify]_vars

\* ---------------------------------------- specification: the policy engine

\* The bookings PolicyEngine.evaluate is applied to: amounts below, at and
\* above the limit and unset (0), start dates unset and before, at and after
\* the minimum advance, every travel class, travelers with and without an
\* eligible title
PolicyInputs ==
    [total_amount : {0, 500, 1000, 1500},
     start_date : {<<>>, <<3>>, <<7>>, <<30>>},
     travel_class : {"economy", "business", "first"},
     travelers : { <<>>, << <<"Engineer">> >>, << <<"CEO">> >>,
                   << <<"Senior", "Director">>, <<"Engineer">> >>,
                   << <<"Engineer">>, <<"Analyst">> >> }]

InitPolicy ==
    /\ manager_id = [e \in Employees |-> NoManager]
    /\ permissions = [e \in Employees |-> {}]
    /\ organizations \in
          {<<>>} \cup { <<[approval_mode |-> m]>> : m \in ApprovalModes }
    /\ bookings \in [BookingIds -> { Draft(1, in) : in \in PolicyInputs }]
    /\ approval_requests = <<>>
    /\ audit_logs = <<>>
    /\ sess = [p \in Sessions |-> Idle]
    /\ calls = 0
    /\ NoAccessQueries

\* PolicyEngine.evaluate applied to booking b in a session of its own; the
\* verdict is what the call returns
EvaluateBooking(p, b) ==
    /\ CanStart(p)
    /\ sess' = [sess EXCEPT ![p] =
                   Finish([Idle EXCEPT !.op = "evaluate", !.user = bookings[b].booker_id,
                                       !.booking_id = b, !.booking = bookings[b],
                                       !.policy_result = Evaluate(bookings[b])], "ok")]
    /\ calls' = calls + 1
    /\ UNCHANGED store
    /\ Static

NextPolicy == \E p \in Sessions, b \in BookingIds : EvaluateBooking(p, b)

SpecPolicy == InitPolicy /\ [][NextPolicy]_vars

\* ---------------------------------------- specification: the hierarchy walk

Staff == 1 .. MaxStaff

\* Every manager graph over the staff, self-loops and cycles included
InitWalk ==
    /\ manager_id \in [Staff -> Staff \cup {NoManager}]
    /\ permissions = [e \in Staff |-> {}]
    /\ organizations = <<>>
    /\ bookings = <<>>
    /\ approval_requests = <<>>
    /\ audit_logs = <<>>
    /\ sess = [p \in Sessions |-> Idle]
    /\ calls = 0
    /\ walk = NoWalk
    /\ role_assignments = <<>>
    /\ groups = [e \in Staff |-> {}]
    /\ delegations = {}
    /\ blacklist = {}
    /\ answer = NoAnswer

NextWalk ==
    \/ \E actor \in Staff : GetAllSubordinates(actor)
    \/ WalkStep
    \/ WalkReturn

\* The call runs to its end once started: nothing it does waits on anything
SpecWalk == InitWalk /\ [][NextWalk]_vars /\ WF_vars(WalkStep) /\ WF_vars(WalkReturn)

\* -------------------------------------- specification: access resolution

\* GET /roles/assignments/{employee_id}: the response; accessible_employee_ids
\* None is global_access TRUE (with no id list)
get_employee_roles(employee_id) ==
    LET merged == EffectiveAccess(employee_id)
    IN  [NoAnswer EXCEPT !.op = "get_employee_roles",
                         !.employee_id = employee_id,
                         !.assignments = ActiveAssignments(employee_id),
                         !.effective_permissions = merged.effective_permissions,
                         !.global_access = merged.has_all_access,
                         !.accessible_employee_ids =
                             IF merged.has_all_access THEN {}
                             ELSE merged.all_accessible_ids]

GetEmployeeRoles(employee_id) ==
    /\ answer' = get_employee_roles(employee_id)
    /\ UNCHANGED <<manager_id, permissions, organizations, store, sess, calls,
                   walk, directory, blacklist>>

\* AccessControl(db, actor).can_act_for(target) for a booking
CanActFor(actor, target) ==
    /\ answer' = [NoAnswer EXCEPT !.op = "can_act_for",
                                  !.employee_id = actor, !.target = target,
                                  !.allowed = can_act_for(actor, target, "booking")]
    /\ UNCHANGED <<manager_id, permissions, organizations, store, sess, calls,
                   walk, directory, blacklist>>

\* The bodies of POST /roles/assign the model sends, all for employee 1
AssignmentInputs ==
    { [employee_id |-> 1, role_template |-> "Employee", access_scope |-> "self",
       accessible_employee_ids |-> {}, accessible_groups |-> {}],
      [employee_id |-> 1, role_template |-> "Restricted", access_scope |-> "self",
       accessible_employee_ids |-> {}, accessible_groups |-> {}],
      [employee_id |-> 1, role_template |-> "Manager", access_scope |-> "hierarchy",
       accessible_employee_ids |-> {}, accessible_groups |-> {}],
      [employee_id |-> 1, role_template |-> "Manager", access_scope |-> "individuals",
       accessible_employee_ids |-> {2}, accessible_groups |-> {}],
      [employee_id |-> 1, role_template |-> "Employee", access_scope |-> "group",
       accessible_employee_ids |-> {}, accessible_groups |-> {"Sales"}],
      [employee_id |-> 1, role_template |-> "Manager", access_scope |-> "all",
       accessible_employee_ids |-> {}, accessible_groups |-> {}] }

\* A stored assignment: assign_role stores its rows active
AssignmentRow(assignment_in, is_active) ==
    [employee_id |-> assignment_in.employee_id,
     role_template |-> assignment_in.role_template,
     access_scope |-> assignment_in.access_scope,
     accessible_employee_ids |-> assignment_in.accessible_employee_ids,
     accessible_groups |-> assignment_in.accessible_groups,
     is_active |-> is_active]

\* POST /roles/assign by a caller _require_manage_roles lets through, for an
\* existing template and employee and a body that passes the scope checks
AssignRole(assignment_in) ==
    /\ Len(role_assignments) < MaxAssignments
    /\ ~(assignment_in.access_scope = "individuals"
          /\ assignment_in.accessible_employee_ids = {})
    /\ ~(assignment_in.access_scope = "group" /\ assignment_in.accessible_groups = {})
    /\ role_assignments' = Append(role_assignments, AssignmentRow(assignment_in, TRUE))
    /\ UNCHANGED <<manager_id, permissions, organizations, store, sess, calls,
                   walk, groups, delegations, blacklist, answer>>

\* The rows the table can hold at the start: active ones and one switched off
StoredAssignments ==
    { AssignmentRow(a, TRUE) : a \in AssignmentInputs } \cup
    { AssignmentRow(a, FALSE) : a \in { x \in AssignmentInputs : x.access_scope = "all" } }

SeqsUpTo(S, n) == UNION { [1 .. k -> S] : k \in 0 .. n }

\* Employee 1, the one with groups, assignments and a delegation, has no
\* manager; employee 2 reports to nobody, to employee 1 or to themselves
InitAccess ==
    /\ manager_id \in { m \in [Employees -> Employees \cup {NoManager}] :
                            m[1] = NoManager }
    /\ groups \in { [e \in Employees |-> IF e = 1 THEN g ELSE {}] : g \in SUBSET GroupNames }
    /\ permissions = [e \in Employees |-> get_permissions_for_groups(groups[e])]
    /\ role_assignments \in SeqsUpTo(StoredAssignments, MaxAssignments)
    /\ delegations \in
          { {}, {[delegator_id |-> 2, delegate_id |-> 1, delegation_type |-> "booking"]} }
    /\ organizations = <<>>
    /\ bookings = <<>>
    /\ approval_requests = <<>>
    /\ audit_logs = <<>>
    /\ sess = [p \in Sessions |-> Idle]
    /\ calls = 0
    /\ walk = NoWalk
    /\ blacklist = {}
    /\ answer = NoAnswer

NextAccess ==
    \/ \E a \in AssignmentInputs : AssignRole(a)
    \/ \E e \in Employees : GetEmployeeRoles(e)
    \/ \E actor, target \in Employees : CanActFor(actor, target)

SpecAccess == InitAccess /\ [][NextAccess]_vars

\* ---------------------------------------- specification: authentication

\* The token ids in use
Jtis == {"jti a", "jti b"}

\* Bearer tokens as jwt.decode sees them: signed and unexpired or not, the
\* claims sub (0: absent; 3: no such employee), type and jti (None: absent)
Tokens ==
    [signed : BOOLEAN, sub : {0, 1, 2, 3}, type : {"access", "refresh"},
     jti : Jtis \cup {None}]

\* Employee.status
EmployeeStatus == [e \in Employees |-> IF e = 2 THEN "suspended" ELSE "active"]

\* TokenBlacklist.revoke: with Redis reachable the key is set and the call
\* returns True; otherwise the exception is logged and it returns False
Revoke(jti, redis_up) ==
    /\ blacklist' = IF redis_up THEN blacklist \cup {jti} ELSE blacklist
    /\ answer' = [NoAnswer EXCEPT !.op = "revoke", !.allowed = redis_up]
    /\ UNCHANGED <<manager_id, permissions, organizations, store, sess, calls,
                   walk, directory>>

\* The TTL of a blacklist key runs out
Expire(jti) ==
    /\ jti \in blacklist
    /\ blacklist' = blacklist \ {jti}
    /\ UNCHANGED <<manager_id, permissions, organizations, store, sess, calls,
                   walk, directory, answer>>

\* TokenBlacklist.is_revoked: whether the key is present; False when Redis
\* cannot be reached
is_revoked(jti, redis_up) == redis_up /\ jti \in blacklist

\* The blacklist check of get_current_user: the HTTPException raised for a
\* revoked token is raised inside the try block whose handler catches
\* Exception, logs it and lets the request go on; None: the request goes on
RevokedCaught(revoked) == None

\* get_current_user for a bearer token: the error raised, or none and the
\* employee returned
get_current_user(token, redis_up) ==
    LET credentials_exception == "401 Could not validate credentials"
        denied(error) == [NoAnswer EXCEPT !.op = "get_current_user",
                                          !.token = token, !.error = error]
    IN  IF ~token.signed THEN denied(credentials_exception)
        ELSE IF token.sub = 0 THEN denied(credentials_exception)
        ELSE IF token.type # "access" THEN denied(credentials_exception)
        ELSE IF /\ token.jti # None
                /\ RevokedCaught(is_revoked(token.jti, redis_up)) # None
        THEN denied(RevokedCaught(is_revoked(token.jti, redis_up)))
        ELSE IF token.sub \notin Employees THEN denied(credentials_exception)
        ELSE IF EmployeeStatus[token.sub] # "active" THEN denied("403 User is suspended")
        ELSE [NoAnswer EXCEPT !.op = "get_current_user", !.token = token,
                              !.employee_id = token.sub]

GetCurrentUser(token, redis_up) ==
    /\ answer' = get_current_user(token, redis_up)
    /\ UNCHANGED <<manager_id, permissions, organizations, store, sess, calls,
                   walk, directory, blacklist>>

InitAuth ==
    /\ manager_id = [e \in Employees |-> NoManager]
    /\ permissions = [e \in Employees |-> {}]
    /\ organizations = <<>>
    /\ bookings = <<>>
    /\ approval_requests = <<>>
    /\ audit_logs = <<>>
    /\ sess = [p \in Sessions |-> Idle]
    /\ calls = 0
    /\ NoAccessQueries

NextAuth ==
    \/ \E jti \in Jtis, redis_up \in BOOLEAN : Revoke(jti, redis_up)
    \/ \E jti \in Jtis : Expire(jti)
    \/ \E token \in Tokens, redis_up \in BOOLEAN : GetCurrentUser(token, redis_up)

SpecAuth == InitAuth /\ [][NextAuth]_vars

\* ------------------------------------------------------------ the claims

\* The session slot in which the request that this step starts runs
Started(p) == calls' = calls + 1 /\ CanStart(p)

RequestsOf(b) ==
    { i \in DOMAIN approval_requests : approval_requests[i].booking_id = b }

AuditOf(b) ==
    { i \in DOMAIN audit_logs : audit_logs[i].entity_id = b }

\* The caller of the approve request in session record s is the booker of the
\* booking of the approval request it names
ApprovesOwnBooking(s) ==
    /\ s.op = "approve_request"
    /\ bookings[approval_requests[s.approval_id].booking_id].booker_id = s.user

\* C1: an approve call whose caller is the booker of the request's booking is
\* denied with an error before approve_booking is invoked, also when the
\* caller is the designated approver and holds approve_travel, and no step of
\* it changes the booking, the request or the audit log.
C1_SelfApprovalDenied ==
    /\ [](\A p \in Sessions :
            ApprovesOwnBooking(sess[p]) =>
                /\ sess[p].transition # "approve_booking"
                /\ sess[p].pc \in {"approve_fetch_booking", "done"}
                /\ sess[p].pc = "done" => sess[p].result # "ok")
    /\ [][\A p \in Sessions :
            (ApprovesOwnBooking(sess'[p]) /\ sess'[p] # sess[p]) => UNCHANGED store]_vars

\* C1 witness: the designated approver, holding approve_travel, was denied
\* the approval of a pending request for a booking of their own
C1_Witness ==
    \E p \in Sessions :
        /\ sess[p].pc = "done"
        /\ sess[p].result = "400 Cannot approve your own booking"
        /\ approval_requests[sess[p].approval_id].approver_id = sess[p].user
        /\ can(sess[p].user, "approve_travel")
        /\ approval_requests[sess[p].approval_id].status = "pending"

\* Two finished requests against the same approval request, the first an
\* approve and the second of kind op2, both answered with success
BothSucceeded(p, q, op2) ==
    /\ p # q
    /\ sess[p].pc = "done" /\ sess[q].pc = "done"
    /\ sess[p].op = "approve_request" /\ sess[q].op = op2
    /\ sess[p].approval_id = sess[q].approval_id
    /\ sess[p].result = "ok" /\ sess[q].result = "ok"

\* C2: of an approve call and a reject call for the same pending approval
\* request, run in separate sessions under any interleaving, at most one
\* succeeds.
C2_ApproveRejectExclusive ==
    \A p, q \in Sessions : ~BothSucceeded(p, q, "reject_request")

\* C3: of two approve calls on the same pending booking, one after the other
\* or interleaved, only one succeeds; the other fails with a precondition
\* error.
C3_ApproveOnce ==
    \A p, q \in Sessions : ~BothSucceeded(p, q, "approve_request")

HasAudit(b, action) ==
    \E i \in AuditOf(b) : audit_logs[i].action = action

\* C4: approve and reject are all-or-nothing in every committed state: the
\* booking of a pending approval request is still pending approval, and a
\* booking has an APPROVE (REJECT) audit entry exactly when a request of it
\* is approved (rejected).
C4_TransitionsAtomic ==
    /\ \A i \in DOMAIN approval_requests :
           approval_requests[i].status = "pending" =>
               bookings[approval_requests[i].booking_id].status = "pending_approval"
    /\ \A b \in BookingIds :
           /\ HasAudit(b, "APPROVE") <=>
                  \E i \in RequestsOf(b) : approval_requests[i].status = "approved"
           /\ HasAudit(b, "REJECT") <=>
                  \E i \in RequestsOf(b) : approval_requests[i].status = "rejected"

\* C5: submit_draft on a draft booking with a block verdict reports the
\* policy-block error and leaves the stored booking rejected, with
\* approval_required false and no approval request.
C5_BlockStoresRejected ==
    \A p \in Sessions :
        (/\ sess[p].pc = "done"
         /\ sess[p].transition = "submit_draft"
         /\ sess[p].policy_result.result = "block")
        => /\ sess[p].result = "400 Booking blocked by policy"
           /\ bookings[sess[p].booking_id].status = "rejected"
           /\ ~bookings[sess[p].booking_id].approval_required
           /\ RequestsOf(sess[p].booking_id) = {}

\* C6: submit_draft on a booking that is not a draft fails with the
\* only-draft error on the spot, leaves the booking object as loaded and the
\* store (booking, approval requests, audit log) unchanged; no submission
\* reaches its commit on a booking it did not load as a draft.
C6_NonDraftSubmitFails ==
    /\ [](\A p \in Sessions :
            sess[p].pc = "submit_commit" => sess[p].loaded_booking.status = "draft")
    /\ [][\A p \in Sessions, b \in BookingIds :
            (/\ Started(p)
             /\ sess'[p].transition = "submit_draft"
             /\ sess'[p].booking_id = b
             /\ bookings[b].status # "draft")
            => /\ sess'[p].pc = "done"
               /\ sess'[p].result = "400 Only draft bookings can be submitted"
               /\ sess'[p].booking = bookings[b]
               /\ UNCHANGED store]_vars

\* C6 witness: a submission of a booking that had left draft was refused
C6_Witness ==
    \E p \in Sessions :
        /\ sess[p].pc = "done"
        /\ sess[p].result = "400 Only draft bookings can be submitted"
        /\ bookings[sess[p].booking_id].status # "draft"

\* The verdict of session record s routes the booking to approval
RoutesToApproval(s) ==
    /\ s.transition = "submit_draft"
    /\ s.policy_result.result # "block"
    /\ s.policy_result.approval_required

\* C7: a submission whose verdict requires approval while the booker has no
\* manager fails with the no-manager error and is not half-applied: the stored
\* booking is still a draft, and it has no approval request and no audit
\* entry.
C7_NoManagerFailsClean ==
    \A p \in Sessions :
        (/\ RoutesToApproval(sess[p])
         /\ manager_id[bookings[sess[p].booking_id].booker_id] = NoManager)
        => /\ sess[p].pc = "done"
           /\ sess[p].result = "400 Approval required but no manager"
           /\ sess[p].created = 0
           /\ bookings[sess[p].booking_id].status = "draft"
           /\ RequestsOf(sess[p].booking_id) = {}
           /\ AuditOf(sess[p].booking_id) = {}

\* C7 witness: a submission failed on the missing manager
C7_Witness ==
    \E p \in Sessions :
        /\ sess[p].pc = "done"
        /\ sess[p].result = "400 Approval required but no manager"
        /\ sess[p].booking.status = "policy_evaluated"

\* C8: a submit_draft call on a draft booking that does not fail on the
\* manager precondition ends with the booking object in rejected,
\* pending_approval or approved, having created one approval request when it
\* ends in pending_approval and none otherwise.
C8_SubmitPostcondition ==
    \A p \in Sessions :
        (/\ sess[p].pc = "done"
         /\ sess[p].transition = "submit_draft"
         /\ sess[p].result \in {"ok", "400 Booking blocked by policy"})
        => /\ sess[p].booking.status \in {"rejected", "pending_approval", "approved"}
           /\ sess[p].created =
                  (IF sess[p].booking.status = "pending_approval" THEN 1 ELSE 0)
           /\ sess[p].result = "ok" <=> sess[p].booking.status # "rejected"

\* C8 witness: a submission has ended in pending_approval with the one
\* approval request it created in the store
C8_Witness ==
    \E p \in Sessions :
        /\ sess[p].pc = "done"
        /\ sess[p].transition = "submit_draft"
        /\ sess[p].result = "ok"
        /\ sess[p].booking.status = "pending_approval"
        /\ sess[p].created = 1
        /\ RequestsOf(sess[p].booking_id) # {}

\* C9: there is at most one approval request per booking in every reachable
\* state, concurrent submit_booking calls for the same draft included.
C9_OneRequestPerBooking ==
    \A b \in BookingIds : Cardinality(RequestsOf(b)) <= 1

\* C10: once the status of an approval request is approved or rejected, no
\* step of any approve or reject call changes its status or its reason.
C10_ResolvedIsTerminal ==
    [][\A i \in DOMAIN approval_requests :
          approval_requests[i].status \in {"approved", "rejected"} =>
              /\ approval_requests'[i].status = approval_requests[i].status
              /\ approval_requests'[i].reason = approval_requests[i].reason]_vars

\* C11: the committed status of a booking is monotonic under every
\* interleaving of submit, approve and reject: a rejected booking stays
\* rejected, no booking returns to draft, and an approved booking does not go
\* back to pending_approval.
C11_StatusMonotonic ==
    [][\A b \in BookingIds :
          /\ bookings[b].status = "rejected" => bookings'[b].status = "rejected"
          /\ bookings[b].status # "draft" => bookings'[b].status # "draft"
          /\ ~(bookings[b].status = "approved" /\
               bookings'[b].status = "pending_approval")]_vars

\* The request that this step starts in slot p calls submit_draft on
\* booking b, stored as a draft, with the verdict it has evaluated
SubmitsDraft(p, b) ==
    /\ Started(p)
    /\ sess'[p].transition = "submit_draft"
    /\ sess'[p].booking_id = b
    /\ bookings[b].status = "draft"

\* This step is the commit of the submission in slot p
CommitsSubmit(p) ==
    sess[p].pc = "submit_commit" /\ sess'[p].pc = "done"

\* C12: submit_draft on a draft booking whose booker has a manager, with a
\* non-block verdict that requires approval, goes on to its commit with the
\* booking set to pending_approval, and the commit adds exactly one approval
\* request, pending and addressed to the booker's manager, and stores the
\* status pending_approval.
C12_RoutedToManager ==
    /\ [][\A p \in Sessions, b \in BookingIds :
            (/\ SubmitsDraft(p, b)
             /\ RoutesToApproval(sess'[p])
             /\ manager_id[bookings[b].booker_id] # NoManager)
            => /\ sess'[p].pc = "submit_commit"
               /\ sess'[p].booking.status = "pending_approval"]_vars
    /\ [][\A p \in Sessions :
            (CommitsSubmit(p) /\ RoutesToApproval(sess[p]))
            => LET b == sess[p].booking_id
               IN  /\ approval_requests' = approval_requests \o
                          <<[booking_id |-> b,
                             approver_id |-> manager_id[bookings[b].booker_id],
                             status |-> "pending", reason |-> None]>>
                   /\ bookings'[b].status = "pending_approval"
                   /\ sess'[p].result = "ok"]_vars

\* C12 witness: a booking that violates a rule (1500 against the limit of
\* 1000) in only_when_necessary mode was submitted and is pending approval
\* with a pending request addressed to the booker's manager
C12_Witness ==
    \E p \in Sessions :
        /\ sess[p].pc = "done" /\ sess[p].result = "ok"
        /\ sess[p].op = "submit_booking"
        /\ organizations # <<>>
        /\ organizations[1].approval_mode = "only_when_necessary"
        /\ sess[p].policy_result.violations # <<>>
        /\ bookings[sess[p].booking_id].total_amount = 1500
        /\ bookings[sess[p].booking_id].status = "pending_approval"
        /\ \E i \in RequestsOf(sess[p].booking_id) :
               /\ approval_requests[i].status = "pending"
               /\ approval_requests[i].approver_id =
                      manager_id[bookings[sess[p].booking_id].booker_id]

\* The verdict of session record s lets the booking through without approval
AutoApproves(s) ==
    /\ s.transition = "submit_draft"
    /\ s.policy_result.result # "block"
    /\ ~s.policy_result.approval_required

\* C13: submit_draft on a draft booking with a non-block verdict that does
\* not require approval goes on to its commit with the booking set to
\* approved, and the commit stores the status approved, adds no approval
\* request and appends the one audit entry SUBMIT_AUTO_APPROVE, draft to
\* approved.
C13_AutoApproved ==
    /\ [][\A p \in Sessions, b \in BookingIds :
            (SubmitsDraft(p, b) /\ AutoApproves(sess'[p]))
            => /\ sess'[p].pc = "submit_commit"
               /\ sess'[p].booking.status = "approved"]_vars
    /\ [][\A p \in Sessions :
            (CommitsSubmit(p) /\ AutoApproves(sess[p]))
            => LET b == sess[p].booking_id
               IN  /\ bookings'[b].status = "approved"
                   /\ approval_requests' = approval_requests
                   /\ audit_logs' = audit_logs \o
                          <<[entity_type |-> "booking", entity_id |-> b,
                             actor_id |-> bookings[b].booker_id,
                             action |-> "SUBMIT_AUTO_APPROVE",
                             from_state |-> "draft", to_state |-> "approved"]>>
                   /\ sess'[p].result = "ok"]_vars

\* C13 witness: a booking within every rule was submitted in
\* only_when_necessary mode and is approved, with no approval request and
\* with its SUBMIT_AUTO_APPROVE audit entry
C13_Witness ==
    \E p \in Sessions :
        /\ sess[p].pc = "done" /\ sess[p].result = "ok"
        /\ AutoApproves(sess[p])
        /\ bookings[sess[p].booking_id].status = "approved"
        /\ RequestsOf(sess[p].booking_id) = {}
        /\ HasAudit(sess[p].booking_id, "SUBMIT_AUTO_APPROVE")

\* The approval mode PolicyEngine.evaluate reads for the booking of session
\* record s, None when the organization has none or does not exist
ModeOf(s) ==
    IF s.booking.org_id \in DOMAIN organizations
    THEN organizations[s.booking.org_id].approval_mode
    ELSE None

\* C14: every non-block verdict PolicyEngine.evaluate returns has
\* approval_required true when the organization's approval mode is
\* always_ask, whatever the violations, and in only_when_necessary mode has
\* approval_required true exactly when its violation list is not empty.
C14_ApprovalRequiredByMode ==
    \A p \in Sessions :
        (sess[p].op = "evaluate" /\ sess[p].policy_result.result # "block")
        => LET v == sess[p].policy_result
           IN  /\ ModeOf(sess[p]) = "always_ask" => v.approval_required
               /\ ModeOf(sess[p]) = "only_when_necessary" =>
                      (v.approval_required <=> v.violations # <<>>)

\* C14 witness: in always_ask mode a booking without any violation got the
\* verdict pass with approval required
C14_Witness ==
    \E p \in Sessions :
        /\ sess[p].op = "evaluate"
        /\ ModeOf(sess[p]) = "always_ask"
        /\ sess[p].policy_result.result = "pass"
        /\ sess[p].policy_result.violations = <<>>
        /\ sess[p].policy_result.approval_required

\* C15: a notification that fails during submit_draft, approve_booking or
\* reject_booking does not undo or prevent the transition: the call still
\* succeeds, and the status it set and its audit entry are committed.
C15_NotificationFailureHarmless ==
    \A p \in Sessions :
        (sess[p].pc = "done" /\ sess[p].notification = "failed")
        => /\ sess[p].result = "ok"
           /\ \E i \in AuditOf(sess[p].booking_id) :
                  /\ audit_logs[i].actor_id = sess[p].user
                  /\ audit_logs[i].to_state = sess[p].booking.status

\* The list has no element more than once
NoDuplicates(list) ==
    \A i, j \in DOMAIN list : list[i] = list[j] => i = j

\* The manager chain that starts at e comes back to e
OnCycle(e) ==
    \E k \in 1 .. Cardinality(DOMAIN manager_id) :
        \E chain \in [0 .. k -> DOMAIN manager_id] :
            /\ chain[0] = e /\ chain[k] = e
            /\ \A i \in 1 .. k : manager_id[chain[i - 1]] = chain[i]

\* C16: on every finite manager graph, with a self-loop or a longer cycle or
\* none, a started hierarchy walk comes to its return, and at no point does
\* its result list hold an id more than once.
C16_WalkTerminates ==
    /\ [](NoDuplicates(walk.subordinates))
    /\ (walk.pc = "run") ~> (walk.pc = "done")

\* C16 witness: the walk of an actor on a manager cycle of at least two
\* employees has returned, with subordinates found
C16_Witness ==
    /\ walk.pc = "done"
    /\ OnCycle(walk.actor)
    /\ manager_id[walk.actor] # walk.actor
    /\ walk.subordinates # <<>>

AllGroupPermissions == UNION { GROUP_PERMISSION_MAP[g] : g \in DOMAIN GROUP_PERMISSION_MAP }

\* C17: the permission merge is monotonic: the effective permissions of an
\* employee before one more active assignment is stored are a subset of
\* those after it, and the permissions of a group list are a subset of
\* those of the list with one more group.
C17_MergeMonotonic ==
    /\ [][\A e \in Employees :
            EffectiveAccess(e).effective_permissions \subseteq
                EffectiveAccess(e).effective_permissions']_vars
    /\ [](\A e \in Employees, g \in GroupNames :
            get_permissions_for_groups(groups[e]) \subseteq
                get_permissions_for_groups(groups[e] \cup {g}))

\* C17 witness: get_employee_roles has merged an assignment whose template
\* grants approve_travel with a later one whose template has it switched
\* off, and the permission is granted
C17_Witness ==
    /\ answer.op = "get_employee_roles"
    /\ Len(answer.assignments) = 2
    /\ answer.assignments[1].role_template = "Manager"
    /\ answer.assignments[2].role_template = "Restricted"
    /\ "approve_travel" \in answer.effective_permissions

\* The permissions of the role templates in use
TemplatePermissions == UNION { DOMAIN RoleTemplates[t] : t \in DOMAIN RoleTemplates }

\* C18: for an employee with zero active assignments the effective
\* permission set is empty, can(p) is false for every permission p, and the
\* accessible set is exactly the employee's own id.
C18_NoAssignmentsSelfOnly ==
    (answer.op = "get_employee_roles" /\ answer.assignments = <<>>)
    => /\ answer.effective_permissions = {}
       /\ \A perm \in AllGroupPermissions \cup TemplatePermissions :
              ~can(answer.employee_id, perm)
       /\ ~answer.global_access
       /\ answer.accessible_employee_ids = {answer.employee_id}

OnlySelfScope(e) ==
    /\ ActiveAssignments(e) # <<>>
    /\ \A i \in DOMAIN ActiveAssignments(e) :
           ActiveAssignments(e)[i].access_scope = "self"

\* C20: for an employee all of whose active assignments have scope self, the
\* accessible id set is exactly the employee's own id, and can_act_for is
\* false for every other employee.
C20_SelfScopeOnlySelf ==
    /\ []((/\ answer.op = "get_employee_roles"
           /\ answer.assignments # <<>>
           /\ \A i \in DOMAIN answer.assignments :
                  answer.assignments[i].access_scope = "self")
          => /\ ~answer.global_access
             /\ answer.accessible_employee_ids = {answer.employee_id})
    /\ [][(/\ answer' # answer
           /\ answer'.op = "can_act_for"
           /\ OnlySelfScope(answer'.employee_id)
           /\ answer'.target # answer'.employee_id)
          => ~answer'.allowed]_vars

\* C21: while the blacklist entry of a revoked token id is present, every
\* get_current_user call with a token that carries the id fails with 401
\* and returns no user.
C21_RevokedTokenRejected ==
    (answer.op = "get_current_user" /\ answer.token.jti \in blacklist)
    => /\ answer.error \in {"401 Token has been revoked",
                            "401 Could not validate credentials"}
       /\ answer.employee_id = 0

\* C22: every verdict PolicyEngine.evaluate returns whose violation list
\* holds a violation of severity hard has the result block and
\* approval_required false.
C22_HardViolationBlocks ==
    \A p \in Sessions :
        (/\ sess[p].op = "evaluate"
         /\ \E i \in DOMAIN sess[p].policy_result.violations :
                sess[p].policy_result.violations[i].severity = "hard")
        => /\ sess[p].policy_result.result = "block"
           /\ ~sess[p].policy_result.approval_required

\* The number of violations of a policy in a violation list
CountOf(violations, policy) ==
    Cardinality({ i \in DOMAIN violations : violations[i].policy = policy })

\* The travelers none of whose title words is an allowed title
Ineligible(travelers) ==
    { i \in DOMAIN travelers :
        \A w \in DOMAIN travelers[i] :
            travelers[i][w] \notin DEFAULT_BUSINESS_CLASS_TITLES }

\* C23: for a booking of an existing organization the verdict's violation
\* list holds the cost violation exactly when the amount is above the
\* limit, the advance-booking violation exactly when the start date is
\* closer than the minimum, one travel-class violation per ineligible
\* traveler in business or first class, and nothing else.
C23_ViolationsAccumulate ==
    \A p \in Sessions :
        (sess[p].op = "evaluate" /\ sess[p].booking.org_id \in DOMAIN organizations)
        => LET b == sess[p].booking
               v == sess[p].policy_result.violations
               cost == IF b.total_amount > DEFAULT_MAX_AMOUNT THEN 1 ELSE 0
               advance == IF b.start_date # <<>> /\
                             b.start_date[1] < DEFAULT_MIN_ADVANCE_DAYS
                          THEN 1 ELSE 0
               class == IF b.travel_class \in {"business", "first"}
                        THEN Cardinality(Ineligible(b.travelers)) ELSE 0
           IN  /\ CountOf(v, "Max Cost Exceeded") = cost
               /\ CountOf(v, "Advance Booking Violation") = advance
               /\ CountOf(v, "Travel Class Violation") = class
               /\ Len(v) = cost + advance + class

\* C23 witness: a verdict with the cost violation, the advance-booking
\* violation and two travel-class violations together
C23_Witness ==
    \E p \in Sessions :
        /\ sess[p].op = "evaluate"
        /\ CountOf(sess[p].policy_result.violations, "Max Cost Exceeded") = 1
        /\ CountOf(sess[p].policy_result.violations, "Advance Booking Violation") = 1
        /\ CountOf(sess[p].policy_result.violations, "Travel Class Violation") = 2

\* C24: approve_booking and reject_booking leave policy_status and
\* approval_required as they found them, on the booking object and in the
\* store, and once submit_draft has stored the two fields no step of any
\* lifecycle transition changes them.
C24_PolicyFieldsFrozen ==
    /\ [](\A p \in Sessions :
            sess[p].pc \in {"approve_booking_commit", "reject_commit"} =>
                /\ sess[p].booking.policy_status = sess[p].loaded_booking.policy_status
                /\ sess[p].booking.approval_required =
                       sess[p].loaded_booking.approval_required)
    /\ [][\A b \in BookingIds :
            bookings[b].policy_status # None =>
                /\ bookings'[b].policy_status = bookings[b].policy_status
                /\ bookings'[b].approval_required = bookings[b].approval_required]_vars

\* C24 witness: a booking submitted with the verdict warn and approval
\* required has been approved and still carries both
C24_Witness ==
    \E p \in Sessions :
        /\ sess[p].pc = "done" /\ sess[p].result = "ok"
        /\ sess[p].op = "approve_request"
        /\ bookings[sess[p].booking_id].status = "approved"
        /\ bookings[sess[p].booking_id].policy_status = "warn"
        /\ bookings[sess[p].booking_id].approval_required

\* The caller holds approve_travel and is the approver of the request, which
\* is pending
MayDecide(user, req) ==
    /\ can(user, "approve_travel")
    /\ req.status = "pending"
    /\ req.approver_id = user

\* C25: a stored booking goes from pending_approval to approved or rejected
\* only by the commit of an approve or reject call whose caller held
\* approve_travel and was the approver of the request, pending when the call
\* read it; a call that fails one of these checks ends with an error at
\* once and changes neither the booking nor the request.
C25_DecisionOnlyByApprover ==
    /\ [][\A b \in BookingIds :
            (/\ bookings[b].status = "pending_approval"
             /\ bookings'[b].status \in {"approved", "rejected"})
            => \E p \in Sessions :
                   /\ sess[p].pc \in {"approve_booking_commit", "reject_commit"}
                   /\ sess'[p] # sess[p]
                   /\ sess[p].booking_id = b
                   /\ MayDecide(sess[p].user, sess[p].loaded_req)]_vars
    /\ [][\A p \in Sessions :
            (/\ Started(p)
             /\ sess'[p].op \in {"approve_request", "reject_request"}
             /\ ~MayDecide(sess'[p].user, approval_requests[sess'[p].approval_id]))
            => /\ sess'[p].pc = "done"
               /\ sess'[p].result \notin {"ok", None}
               /\ UNCHANGED store]_vars

\* C25 witness: a caller holding approve_travel was refused a pending request
\* addressed to somebody else, and the booking is still pending approval
C25_Witness ==
    \E p \in Sessions :
        /\ sess[p].pc = "done"
        /\ sess[p].op = "approve_request"
        /\ sess[p].result = "403 Not authorized to approve"
        /\ can(sess[p].user, "approve_travel")
        /\ approval_requests[sess[p].approval_id].status = "pending"
        /\ bookings[approval_requests[sess[p].approval_id].booking_id].status =
               "pending_approval"

\* The audit entries a step appends
Appended == SubSeq(audit_logs', Len(audit_logs) + 1, Len(audit_logs'))

\* C26: no step changes or removes a stored audit entry, and every step
\* that changes the stored status of a booking appends, in the same commit,
\* exactly one audit entry, which is of that booking and whose to_state is
\* the new status.
C26_AuditAppendOnlyComplete ==
    [][/\ Len(audit_logs') >= Len(audit_logs)
       /\ SubSeq(audit_logs', 1, Len(audit_logs)) = audit_logs
       /\ \A b \in BookingIds :
              bookings'[b].status # bookings[b].status
              => /\ Len(Appended) = 1
                 /\ Appended[1].entity_type = "booking"
                 /\ Appended[1].entity_id = b
                 /\ Appended[1].to_state = bookings'[b].status]_vars

\* C26 witness: a booking was submitted for approval and then rejected, and
\* the log holds its two entries, the last one to the stored status
C26_Witness ==
    \E p \in Sessions :
        /\ sess[p].pc = "done" /\ sess[p].result = "ok"
        /\ sess[p].op = "reject_request"
        /\ bookings[sess[p].booking_id].status = "rejected"
        /\ Cardinality(AuditOf(sess[p].booking_id)) = 2
        /\ audit_logs[Len(audit_logs)].entity_id = sess[p].booking_id
        /\ audit_logs[Len(audit_logs)].to_state = "rejected"

\* The employees whose manager chain comes to root in one step or more
ReportsUnder(root) ==
    { e \in DOMAIN manager_id :
        \E k \in 1 .. Cardinality(DOMAIN manager_id) :
            \E chain \in [0 .. k -> DOMAIN manager_id] :
                /\ chain[0] = e /\ chain[k] = root
                /\ \A i \in 1 .. k : manager_id[chain[i - 1]] = chain[i] }

ElementsOf(list) == { list[i] : i \in DOMAIN list }

\* C27: on every manager graph and for every root, the hierarchy walk
\* returns the employees whose manager chain comes to the root in one step
\* or more, the root itself left out also when it is on a cycle; the root
\* is at no point of the walk in the result list.
C27_WalkReturnsReports ==
    /\ walk.pc # "idle" => walk.actor \notin ElementsOf(walk.subordinates)
    /\ walk.pc = "done" =>
           /\ ElementsOf(walk.subordinates) = ReportsUnder(walk.actor) \ {walk.actor}
           /\ walk.subordinates = get_all_subordinates(walk.actor)

\* C27 witness: the walk of a root that is on a cycle has returned every
\* other employee
C27_Witness ==
    /\ walk.pc = "done"
    /\ walk.actor \in ReportsUnder(walk.actor)
    /\ Cardinality(DOMAIN manager_id) > 2
    /\ ElementsOf(walk.subordinates) = DOMAIN manager_id \ {walk.actor}

\* C28: the stored status of a booking is never policy_evaluated, and no
\* call reads that status from the store; the commit of a submit_draft call
\* stores pending_approval or approved, and a submit_draft call that fails
\* leaves the store as it was.
C28_TransientNeverStored ==
    /\ [](/\ \A b \in BookingIds : bookings[b].status # "policy_evaluated"
          /\ \A p \in Sessions : sess[p].loaded_booking.status # "policy_evaluated")
    /\ [][\A p \in Sessions :
            /\ CommitsSubmit(p) =>
                   bookings'[sess[p].booking_id].status \in {"pending_approval", "approved"}
            /\ (/\ sess[p].pc # "done" /\ sess'[p].pc = "done"
                /\ sess'[p].transition = "submit_draft"
                /\ sess'[p].result # "ok") => UNCHANGED store]_vars

\* C28 witness: a submission has failed on the missing manager with the
\* booking object in policy_evaluated, and the stored booking is a draft
\* with no verdict
C28_Witness ==
    \E p \in Sessions :
        /\ sess[p].pc = "done"
        /\ sess[p].transition = "submit_draft"
        /\ sess[p].result = "400 Approval required but no manager"
        /\ sess[p].booking.status = "policy_evaluated"
        /\ bookings[sess[p].booking_id].status = "draft"
        /\ bookings[sess[p].booking_id].policy_status = None

\* C29: a stored booking is approved with no approval request only if its
\* organization exists, the approval mode of the organization is
\* only_when_necessary and the policy evaluation of the booking finds no
\* violation; a submit_booking call for a booking whose organization is
\* missing or has no approval mode gets a verdict that requires approval.
C29_AutoApprovalOnlyWhenClean ==
    /\ [](\A b \in BookingIds :
            (bookings[b].status = "approved" /\ RequestsOf(b) = {})
            => /\ bookings[b].org_id \in DOMAIN organizations
               /\ organizations[bookings[b].org_id].approval_mode = "only_when_necessary"
               /\ Evaluate(bookings[b]).violations = <<>>)
    /\ [][\A p \in Sessions :
            /\ (CommitsSubmit(p) /\ AutoApproves(sess[p]))
               => /\ ModeOf(sess[p]) = "only_when_necessary"
                  /\ sess[p].policy_result.violations = <<>>
            /\ (/\ Started(p)
                /\ sess'[p].op = "submit_booking"
                /\ sess'[p].transition = "submit_draft"
                /\ ModeOf(sess'[p]) = None)
               => sess'[p].policy_result.approval_required]_vars

\* C29 witness: with no organization stored, a booking within every rule was
\* submitted and waits for approval with its approval request
C29_Witness ==
    \E p \in Sessions :
        /\ sess[p].pc = "done" /\ sess[p].result = "ok"
        /\ sess[p].op = "submit_booking"
        /\ organizations = <<>>
        /\ sess[p].policy_result.violations = <<>>
        /\ bookings[sess[p].booking_id].total_amount = 500
        /\ bookings[sess[p].booking_id].status = "pending_approval"
        /\ RequestsOf(sess[p].booking_id) # {}

\* C30: every stored approval request is addressed to somebody other than
\* the booker of its booking, whatever the manager graph, an employee who is
\* their own manager included.
C30_NeverRoutedToBooker ==
    \A i \in DOMAIN approval_requests :
        approval_requests[i].approver_id #
            bookings[approval_requests[i].booking_id].booker_id

====
